---- MODULE Spec2Model ----
(***************************************************************************)
(* Model of the BMI calculator (src/main.py): the pure core functions      *)
(* kg_from_lbs, meters_from_inches, bmi, classify_bmi, recommendations,    *)
(* render_band_chart, and the Streamlit script main() that is re-run on    *)
(* every widget interaction.                                               *)
(*                                                                         *)
(* Python floats are modelled as exact rationals over arbitrary-precision  *)
(* naturals, together with the special values nan and +-inf and with the   *)
(* binary64 range: a result too large becomes inf (OverflowError when it   *)
(* is a power), a result too small becomes 0.  Rounding error inside the   *)
(* range is not modelled; round(x, 1) is round-half-even on the exact      *)
(* value.                                                                  *)
(***************************************************************************)
EXTENDS Integers, Sequences, FiniteSets, TLC

(***************************************************************************)
(* Arbitrary-precision naturals: little-endian sequences of base-10000     *)
(* limbs without leading zero limbs; <<>> is 0.                            *)
(***************************************************************************)
RECURSIVE BigOf(_)
BigOf(k) ==
    IF k = 0 THEN <<>> ELSE <<k % 10000>> \o BigOf(k \div 10000)

RECURSIVE Trim(_)
Trim(a) ==
    IF a = <<>> THEN a
    ELSE IF a[Len(a)] = 0 THEN Trim(SubSeq(a, 1, Len(a) - 1)) ELSE a

RECURSIVE AddC(_, _, _)
AddC(a, b, c) ==
    IF a = <<>> /\ b = <<>> THEN BigOf(c)
    ELSE LET x == IF a = <<>> THEN 0 ELSE Head(a)
             y == IF b = <<>> THEN 0 ELSE Head(b)
             s == x + y + c
         IN  <<s % 10000>> \o AddC(IF a = <<>> THEN a ELSE Tail(a),
                                   IF b = <<>> THEN b ELSE Tail(b),
                                   s \div 10000)

BigAdd(a, b) == AddC(a, b, 0)

RECURSIVE MulC(_, _, _)
MulC(a, k, c) ==
    IF a = <<>> THEN BigOf(c)
    ELSE LET s == Head(a) * k + c
         IN  <<s % 10000>> \o MulC(Tail(a), k, s \div 10000)

\* a * k for a limb 0 <= k < 10000
BigMulLimb(a, k) == IF k = 0 THEN <<>> ELSE MulC(a, k, 0)

RECURSIVE BigMul(_, _)
BigMul(a, b) ==
    IF a = <<>> \/ b = <<>> THEN <<>>
    ELSE LET rest == BigMul(a, Tail(b))
         IN  BigAdd(BigMulLimb(a, Head(b)),
                    IF rest = <<>> THEN rest ELSE <<0>> \o rest)

RECURSIVE CmpFrom(_, _, _)
CmpFrom(a, b, i) ==
    IF i = 0 THEN 0
    ELSE IF a[i] < b[i] THEN -1
    ELSE IF a[i] > b[i] THEN 1
    ELSE CmpFrom(a, b, i - 1)

\* -1, 0, 1 as a < b, a = b, a > b
BigCmp(a, b) ==
    IF Len(a) < Len(b) THEN -1
    ELSE IF Len(a) > Len(b) THEN 1
    ELSE CmpFrom(a, b, Len(a))

BigLe(a, b) == BigCmp(a, b) <= 0
BigLt(a, b) == BigCmp(a, b) < 0

RECURSIVE SubB(_, _, _)
SubB(a, b, c) ==
    IF a = <<>> THEN <<>>
    ELSE LET y == IF b = <<>> THEN 0 ELSE Head(b)
             s == Head(a) - y - c
         IN  <<IF s < 0 THEN s + 10000 ELSE s>>
             \o SubB(Tail(a), IF b = <<>> THEN b ELSE Tail(b),
                     IF s < 0 THEN 1 ELSE 0)

\* a - b for a >= b
BigSub(a, b) == Trim(SubB(a, b, 0))

\* the largest limb q with q * b <= r, given lo * b <= r < hi * b
RECURSIVE QLimb(_, _, _, _)
QLimb(r, b, lo, hi) ==
    IF hi - lo <= 1 THEN lo
    ELSE LET mid == (lo + hi) \div 2
         IN  IF BigLe(BigMulLimb(b, mid), r)
             THEN QLimb(r, b, mid, hi) ELSE QLimb(r, b, lo, mid)

\* <<a div b, a mod b>> for b > 0, by long division from the top limb
RECURSIVE BigDivMod(_, _)
BigDivMod(a, b) ==
    IF a = <<>> THEN << <<>>, <<>> >>
    ELSE LET up  == BigDivMod(Tail(a), b)
             r   == Trim(<<Head(a)>> \o up[2])
             q   == QLimb(r, b, 0, 10000)
         IN  << Trim(<<q>> \o up[1]), BigSub(r, BigMulLimb(b, q)) >>

\* a * 10^k for k >= 0
BigShift10(a, k) ==
    IF a = <<>> THEN a
    ELSE [i \in 1..(k \div 4) |-> 0]
         \o BigMulLimb(a, CASE k % 4 = 0 -> 1 [] k % 4 = 1 -> 10
                            [] k % 4 = 2 -> 100 [] OTHER -> 1000)

\* -1, 0, 1 as a * 10^k is below, equal to, above b, for any integer k
BigCmpScaled(a, k, b) ==
    IF k < 0 THEN
        IF b = <<>> THEN (IF a = <<>> THEN 0 ELSE 1)
        ELSE IF Len(b) + ((-k) \div 4) > Len(a) THEN -1
        ELSE BigCmp(a, BigShift10(b, -k))
    ELSE
        IF a = <<>> THEN (IF b = <<>> THEN 0 ELSE -1)
        ELSE IF Len(a) + (k \div 4) > Len(b) THEN 1
        ELSE BigCmp(BigShift10(a, k), b)

(***************************************************************************)
(* Python float values.  A finite value is (-1)^neg * n / d * 10^e with n, *)
(* d arbitrary-precision naturals, d > 0; k is "fin", "inf" or "nan".  A   *)
(* raised exception travels in the same shape, k naming the exception.     *)
(***************************************************************************)
Fin(neg, n, d, e) ==
    [k |-> "fin", neg |-> (neg /\ n # <<>>), n |-> n,
     d |-> IF n = <<>> THEN <<1>> ELSE d, e |-> IF n = <<>> THEN 0 ELSE e]

NaN == [k |-> "nan", neg |-> FALSE, n |-> <<>>, d |-> <<1>>, e |-> 0]

Inf(neg) == [k |-> "inf", neg |-> neg, n |-> <<>>, d |-> <<1>>, e |-> 0]

Raise(exc) == [k |-> exc, neg |-> FALSE, n |-> <<>>, d |-> <<1>>, e |-> 0]

Raised(x) == x.k \in {"OverflowError", "ZeroDivisionError"}

\* the decimal literal m * 10^-s, m an integer
Dec(m, s) == Fin(m < 0, BigOf(IF m < 0 THEN -m ELSE m), <<1>>, -s)

IsNan(x) == x.k = "nan"

IsZero(x) == x.k = "fin" /\ x.n = <<>>

\* |x| against |y| for finite x, y: -1, 0, 1
CmpMag(x, y) == BigCmpScaled(BigMul(x.n, y.d), x.e - y.e, BigMul(y.n, x.d))

\* x against y for x, y not nan: -1, 0, 1
FCmp(x, y) ==
    LET sx == IF IsZero(x) THEN 0 ELSE IF x.neg THEN -1 ELSE 1
        sy == IF IsZero(y) THEN 0 ELSE IF y.neg THEN -1 ELSE 1
        mag == CASE x.k = "inf" /\ y.k = "inf" -> 0
                 [] x.k = "inf" -> 1
                 [] y.k = "inf" -> -1
                 [] OTHER -> CmpMag(x, y)
    IN  IF sx # sy THEN (IF sx < sy THEN -1 ELSE 1)
        ELSE IF sx = 0 THEN 0
        ELSE sx * mag

\* Python's <, <=, >, == on floats: false whenever an operand is nan
FLt(x, y) == ~IsNan(x) /\ ~IsNan(y) /\ FCmp(x, y) < 0
FLe(x, y) == ~IsNan(x) /\ ~IsNan(y) /\ FCmp(x, y) <= 0
FGt(x, y) == FLt(y, x)
FEq(x, y) == ~IsNan(x) /\ ~IsNan(y) /\ FCmp(x, y) = 0

\* binary64 range, to 17 significant digits: a magnitude of at least
\* 2^1024 - 2^970 rounds to inf, one of at most 2^-1075 rounds to 0
OverflowAt == Fin(FALSE, <<3158, 4862, 9313, 7976, 1>>, <<1>>, 292)
UnderflowAt == Fin(FALSE, <<2327, 9206, 2822, 4703, 2>>, <<1>>, -340)

Range(x) ==
    IF IsZero(x) THEN x
    ELSE IF CmpMag(x, OverflowAt) >= 0 THEN Inf(x.neg)
    ELSE IF CmpMag(x, UnderflowAt) <= 0 THEN Fin(FALSE, <<>>, <<1>>, 0)
    ELSE x

\* x * y
FMul(x, y) ==
    IF IsNan(x) \/ IsNan(y) THEN NaN
    ELSE IF x.k = "inf" \/ y.k = "inf" THEN
        (IF IsZero(x) \/ IsZero(y) THEN NaN ELSE Inf(x.neg # y.neg))
    ELSE Range(Fin(x.neg # y.neg, BigMul(x.n, y.n), BigMul(x.d, y.d),
                   x.e + y.e))

\* x / y: float division by zero raises
FDiv(x, y) ==
    IF IsZero(y) THEN Raise("ZeroDivisionError")
    ELSE IF IsNan(x) \/ IsNan(y) THEN NaN
    ELSE IF x.k = "inf" THEN (IF y.k = "inf" THEN NaN ELSE Inf(x.neg # y.neg))
    ELSE IF y.k = "inf" THEN Fin(FALSE, <<>>, <<1>>, 0)
    ELSE Range(Fin(x.neg # y.neg, BigMul(x.n, y.d), BigMul(x.d, y.n),
                   x.e - y.e))

\* x ** 2: a finite base whose square is out of range raises
FPow2(x) ==
    IF IsNan(x) THEN NaN
    ELSE IF x.k = "inf" THEN Inf(FALSE)
    ELSE LET r == Range(Fin(FALSE, BigMul(x.n, x.n), BigMul(x.d, x.d),
                            2 * x.e))
         IN  IF r.k = "inf" THEN Raise("OverflowError") ELSE r

\* round(x, 1): to the nearest tenth, a tie to the even tenth. A float of
\* magnitude 2^52 or more is an integer and is returned as it is.  On an
\* exact decimal tie CPython follows the binary rounding error of its
\* operand, which this model does not hold; the inputs drawn below give no
\* tie, and on every other input of the widgets' 0.1 grid this operator and
\* CPython agree.
Round1(x) ==
    IF x.k # "fin" THEN x
    ELSE IF CmpMag(x, Fin(FALSE, <<496, 7370, 9962, 5035, 4>>, <<1>>, 0)) >= 0 THEN x
    ELSE IF CmpMag(x, Dec(5, 2)) < 0 THEN Fin(FALSE, <<>>, <<1>>, 0)
    ELSE LET num == IF x.e + 1 >= 0 THEN BigShift10(x.n, x.e + 1) ELSE x.n
             den == IF x.e + 1 >= 0 THEN x.d ELSE BigShift10(x.d, -(x.e + 1))
             qr  == BigDivMod(num, den)
             c   == BigCmp(BigAdd(qr[2], qr[2]), den)
             up  == c > 0 \/ (c = 0 /\ qr[1] # <<>> /\ qr[1][1] % 2 = 1)
         IN  Fin(x.neg, IF up THEN BigAdd(qr[1], <<1>>) ELSE qr[1], <<1>>, -1)

\* float(np.clip(x, lo, hi)) for x not nan
Clip(x, lo, hi) == IF FLt(x, lo) THEN lo ELSE IF FGt(x, hi) THEN hi ELSE x

(***************************************************************************)
(* Constants and core logic of src/main.py.  The em dash of the            *)
(* placeholder category and the non-ASCII characters of the advice texts   *)
(* are written in ASCII.                                                   *)
(***************************************************************************)
Placeholder == "--"

\* (label, lower_bound_inclusive, upper_bound_exclusive, color)
BMI_BANDS ==
    << [label |-> "Underweight", lo |-> Dec(0, 1),   hi |-> Dec(185, 1),
        color |-> "#1976D2"],
       [label |-> "Normal",      lo |-> Dec(185, 1), hi |-> Dec(250, 1),
        color |-> "#2E7D32"],
       [label |-> "Overweight",  lo |-> Dec(250, 1), hi |-> Dec(300, 1),
        color |-> "#ED6C02"],
       [label |-> "Obese",       lo |-> Dec(300, 1), hi |-> Inf(FALSE),
        color |-> "#C62828"] >>

\* mutant: divides by the factor instead of multiplying
kg_from_lbs_divides(pounds) == FDiv(pounds, Dec(45359237, 8))

kg_from_lbs(pounds) == FMul(pounds, Dec(45359237, 8))

meters_from_inches(inches) == FMul(inches, Dec(254, 4))

\* Compute BMI = kg / m^2. Returns NaN if inputs invalid.
bmi(weight_kg, height_m) ==
    IF FLe(height_m, Dec(0, 0)) \/ FLe(weight_kg, Dec(0, 0)) THEN NaN
    ELSE LET sq == FPow2(height_m)
         IN  IF Raised(sq) THEN sq ELSE FDiv(weight_kg, sq)

\* mutant: the lower boundary compared with <= instead of <
classify_bmi_inclusive(bmi_value) ==
    IF IsNan(bmi_value) THEN <<Placeholder, "info">>
    ELSE IF FLe(bmi_value, Dec(185, 1)) THEN <<"Underweight", "info">>
    ELSE IF FLe(bmi_value, Dec(250, 1)) THEN <<"Normal", "ok">>
    ELSE IF FLe(bmi_value, Dec(300, 1)) THEN <<"Overweight", "warn">>
    ELSE <<"Obese", "alert">>

\* mutant: no test for the nan sentinel; every comparison with nan is false
classify_bmi_no_sentinel(bmi_value) ==
    IF FLt(bmi_value, Dec(185, 1)) THEN <<"Underweight", "info">>
    ELSE IF FLt(bmi_value, Dec(250, 1)) THEN <<"Normal", "ok">>
    ELSE IF FLt(bmi_value, Dec(300, 1)) THEN <<"Overweight", "warn">>
    ELSE <<"Obese", "alert">>

\* Return <<category, tone>> for badge styling.
classify_bmi(bmi_value) ==
    IF IsNan(bmi_value) THEN <<Placeholder, "info">>
    ELSE IF FLt(bmi_value, Dec(185, 1)) THEN <<"Underweight", "info">>
    ELSE IF FLt(bmi_value, Dec(250, 1)) THEN <<"Normal", "ok">>
    ELSE IF FLt(bmi_value, Dec(300, 1)) THEN <<"Overweight", "warn">>
    ELSE <<"Obese", "alert">>

recs ==
    [c \in {"Underweight", "Normal", "Overweight", "Obese", Placeholder} |->
       CASE c = "Underweight" ->
              << "Discuss weight goals with a clinician or dietitian.",
                 "Increase nutrient-dense calories; emphasize lean proteins and complex carbs.",
                 "Screen for underlying causes (e.g., thyroid, malabsorption).",
                 "Incorporate progressive resistance training." >>
         [] c = "Normal" ->
              << "Maintain balanced diet per evidence-based guidelines.",
                 "Target >=150 minutes/week of moderate activity.",
                 "Prioritize sleep hygiene and stress management.",
                 "Continue routine preventive care." >>
         [] c = "Overweight" ->
              << "Adopt calorie-aware, whole-food eating patterns.",
                 "Increase physical activity; combine aerobic and strength training.",
                 "Set incremental goals (e.g., 5-7% weight reduction).",
                 "Consider coaching or registered dietitian support." >>
         [] c = "Obese" ->
              << "Partner with a clinician for a comprehensive plan.",
                 "Combine nutrition therapy, activity, and behavior strategies.",
                 "Discuss adjuncts when appropriate (pharmacotherapy, bariatric referral).",
                 "Address comorbidities (HTN, T2DM, OSA) and monitor regularly." >>
         [] OTHER -> << >>]

\* mutant: recs[category], which raises for a label that is no key
recommendations_no_default(category) ==
    IF category \in DOMAIN recs THEN recs[category] ELSE <<"KeyError">>

\* recs.get(category, [])
recommendations(category) ==
    IF category \in DOMAIN recs THEN recs[category] ELSE << >>

display_min == Dec(100, 1)
display_max == Dec(400, 1)

\* mutant: the Normal/Overweight boundary of the chart drawn at 24.9
thresholds_shifted ==
    << [range |-> "Underweight", start |-> Dec(100, 1), end |-> Dec(185, 1),
        color |-> "#1976D2"],
       [range |-> "Normal",      start |-> Dec(185, 1), end |-> Dec(249, 1),
        color |-> "#2E7D32"],
       [range |-> "Overweight",  start |-> Dec(249, 1), end |-> Dec(300, 1),
        color |-> "#ED6C02"],
       [range |-> "Obese",       start |-> Dec(300, 1), end |-> Dec(400, 1),
        color |-> "#C62828"] >>

thresholds ==
    << [range |-> "Underweight", start |-> Dec(100, 1), end |-> Dec(185, 1),
        color |-> "#1976D2"],
       [range |-> "Normal",      start |-> Dec(185, 1), end |-> Dec(250, 1),
        color |-> "#2E7D32"],
       [range |-> "Overweight",  start |-> Dec(250, 1), end |-> Dec(300, 1),
        color |-> "#ED6C02"],
       [range |-> "Obese",       start |-> Dec(300, 1), end |-> Dec(400, 1),
        color |-> "#C62828"] >>

\* mutant: the marker clipped without the fallback for nan
render_band_chart_nan_marker(bmi_value) ==
    [thresholds |-> thresholds,
     point_val  |-> IF IsNan(bmi_value) THEN NaN
                    ELSE Clip(bmi_value, display_min, display_max)]

\* Color-coded range bars + current BMI marker: the chart's data
render_band_chart(bmi_value) ==
    [thresholds |-> thresholds,
     point_val  |-> Clip(IF ~IsNan(bmi_value) THEN bmi_value ELSE Dec(0, 0),
                         display_min, display_max)]

\* badge colors of the four tones (CSS custom properties)
ToneColor ==
    [ok |-> "#2E7D32", warn |-> "#ED6C02", alert |-> "#C62828",
     info |-> "#1976D2"]

(***************************************************************************)
(* The Streamlit script.  Widget values are held in tenths (step = 0.1).   *)
(***************************************************************************)
UnitSystems == <<"Metric (cm, kg)", "Imperial (in, lbs)">>

\* "Metric" in unit_system
IsMetric(unit_system) == unit_system = UnitSystems[1]

\* st.number_input(..., min_value, max_value, value, step=0.1)
HeightCmInput == [min_value |-> 500, max_value |-> 2500, value |-> 1700]
WeightKgInput == [min_value |-> 200, max_value |-> 3000, value |-> 700]
HeightInInput == [min_value |-> 200, max_value |-> 1000, value |-> 670]
WeightLbInput == [min_value |-> 440, max_value |-> 6600, value |-> 1540]

\* mutant: the category taken from the unrounded BMI
Pipeline_classify_raw(height_m, weight) ==
    LET raw == IF FGt(height_m, Dec(0, 0)) /\ FGt(weight, Dec(0, 0))
               THEN bmi(weight, height_m) ELSE NaN
        bmi_value == Round1(raw)
        ct == classify_bmi(raw)
    IN  IF Raised(raw) THEN
            [error |-> raw.k, bmi_value |-> NaN, category |-> "", tone |-> "",
             info |-> FALSE, chart |-> << >>, listed |-> << >>]
        ELSE IF IsNan(bmi_value) THEN
            [error |-> "", bmi_value |-> bmi_value, category |-> ct[1],
             tone |-> ct[2], info |-> TRUE, chart |-> << >>, listed |-> << >>]
        ELSE
            [error |-> "", bmi_value |-> bmi_value, category |-> ct[1],
             tone |-> ct[2], info |-> FALSE,
             chart |-> <<render_band_chart(bmi_value).point_val>>,
             listed |-> recommendations(ct[1])]

\* The "Compute" and "Results" sections of main() for the normalised inputs:
\* what one run of the script leaves on the page.  Of the chart the page
\* keeps the marker (the segments are the fixed thresholds); chart is empty
\* when no chart is drawn.  An exception raised by bmi() ends the run with
\* nothing rendered.
Pipeline(height_m, weight) ==
    LET raw == IF FGt(height_m, Dec(0, 0)) /\ FGt(weight, Dec(0, 0))
               THEN bmi(weight, height_m) ELSE NaN
        bmi_value == Round1(raw)
        ct == classify_bmi(bmi_value)
    IN  IF Raised(raw) THEN
            [error |-> raw.k, bmi_value |-> NaN, category |-> "", tone |-> "",
             info |-> FALSE, chart |-> << >>, listed |-> << >>]
        ELSE IF IsNan(bmi_value) THEN
            [error |-> "", bmi_value |-> bmi_value, category |-> ct[1],
             tone |-> ct[2], info |-> TRUE, chart |-> << >>, listed |-> << >>]
        ELSE
            [error |-> "", bmi_value |-> bmi_value, category |-> ct[1],
             tone |-> ct[2], info |-> FALSE,
             chart |-> <<render_band_chart(bmi_value).point_val>>,
             listed |-> recommendations(ct[1])]

\* mutant: the imperial branch takes the weight from the metric input
Normalised_stale_weight(us, h_cm, w_kg, h_in, w_lb) ==
    IF IsMetric(us)
    THEN [height_m |-> FDiv(Dec(h_cm, 1), Dec(1000, 1)),
          weight   |-> Dec(w_kg, 1)]
    ELSE [height_m |-> meters_from_inches(Dec(h_in, 1)),
          weight   |-> Dec(w_kg, 1)]

\* The "Inputs" section of main(): the values of the selected unit
\* system's two inputs, normalised to metres and kilograms.
Normalised(us, h_cm, w_kg, h_in, w_lb) ==
    IF IsMetric(us)
    THEN [height_m |-> FDiv(Dec(h_cm, 1), Dec(1000, 1)),
          weight   |-> Dec(w_kg, 1)]
    ELSE [height_m |-> meters_from_inches(Dec(h_in, 1)),
          weight   |-> kg_from_lbs(Dec(w_lb, 1))]

\* One run of main().
main(us, h_cm, w_kg, h_in, w_lb) ==
    LET in == Normalised(us, h_cm, w_kg, h_in, w_lb)
    IN  Pipeline(in.height_m, in.weight)

(***************************************************************************)
(* State.  The session: the radio's selection, the four number inputs      *)
(* (tenths) and the page the last run of the script rendered.  The call    *)
(* record: the last direct call of a core function and what it returned.   *)
(***************************************************************************)
VARIABLES unit_system, height_cm, weight_kg, height_in, weight_lb, view,
          call, ret

session == <<unit_system, height_cm, weight_kg, height_in, weight_lb, view>>
vars == <<unit_system, height_cm, weight_kg, height_in, weight_lb, view,
          call, ret>>

\* samples per input axis, and the extent of the sweep of BMI arguments
GridPoints == 3
SweepMax == 45

\* mutant: an input without its min_value, which then admits 0
number_input_no_min(w, extra) ==
    {(k * w.max_value) \div GridPoints : k \in 0..GridPoints}
    \cup {w.value}
    \cup {x \in extra : x <= w.max_value}

\* the values a number input can hold that the model draws from: evenly
\* spaced over [min_value, max_value], the default, and the given extras
number_input(w, extra) ==
    {w.min_value + (k * (w.max_value - w.min_value)) \div GridPoints :
        k \in 0..GridPoints}
    \cup {w.value}
    \cup {x \in extra : w.min_value <= x /\ x <= w.max_value}

HeightCmValues == number_input(HeightCmInput, {1800})
WeightKgValues == number_input(WeightKgInput, {599})
HeightInValues == number_input(HeightInInput, {})
WeightLbValues == number_input(WeightLbInput, {})

NoCall == [fn |-> "", args |-> << >>]

Init ==
    /\ unit_system = UnitSystems[1]
    /\ height_cm = HeightCmInput.value
    /\ weight_kg = WeightKgInput.value
    /\ height_in = HeightInInput.value
    /\ weight_lb = WeightLbInput.value
    /\ view = main(unit_system, height_cm, weight_kg, height_in, weight_lb)
    /\ call = NoCall
    /\ ret = << >>

\* The script runs again after an interaction.
Rerun ==
    view' = main(unit_system', height_cm', weight_kg', height_in', weight_lb')

\* The user picks the other measurement system.  The inputs that come into
\* view hold what the session kept for them or their declared default:
\* which of the two is Streamlit's choice, not the script's.
SelectUnit(us) ==
    /\ us # unit_system
    /\ unit_system' = us
    /\ IF IsMetric(us)
       THEN /\ height_cm' \in {height_cm, HeightCmInput.value}
            /\ weight_kg' \in {weight_kg, WeightKgInput.value}
            /\ UNCHANGED <<height_in, weight_lb>>
       ELSE /\ height_in' \in {height_in, HeightInInput.value}
            /\ weight_lb' \in {weight_lb, WeightLbInput.value}
            /\ UNCHANGED <<height_cm, weight_kg>>
    /\ Rerun
    /\ UNCHANGED <<call, ret>>

\* The user changes the visible height input.
SetHeight(v) ==
    /\ IF IsMetric(unit_system)
       THEN /\ v \in HeightCmValues /\ v # height_cm
            /\ height_cm' = v
            /\ UNCHANGED height_in
       ELSE /\ v \in HeightInValues /\ v # height_in
            /\ height_in' = v
            /\ UNCHANGED height_cm
    /\ UNCHANGED <<unit_system, weight_kg, weight_lb>>
    /\ Rerun
    /\ UNCHANGED <<call, ret>>

\* The user changes the visible weight input.
SetWeight(v) ==
    /\ IF IsMetric(unit_system)
       THEN /\ v \in WeightKgValues /\ v # weight_kg
            /\ weight_kg' = v
            /\ UNCHANGED weight_lb
       ELSE /\ v \in WeightLbValues /\ v # weight_lb
            /\ weight_lb' = v
            /\ UNCHANGED weight_kg
    /\ UNCHANGED <<unit_system, height_cm, height_in>>
    /\ Rerun
    /\ UNCHANGED <<call, ret>>

Next ==
    \/ \E us \in {UnitSystems[1], UnitSystems[2]} : SelectUnit(us)
    \/ \E v \in HeightCmValues \cup HeightInValues : SetHeight(v)
    \/ \E v \in WeightKgValues \cup WeightLbValues : SetWeight(v)

Spec == Init /\ [][Next]_vars

(***************************************************************************)
(* Direct calls of the core functions on arguments outside what the        *)
(* widgets admit: boundary values, non-positive and extreme measurements,  *)
(* the nan sentinel, unknown labels.                                       *)
(***************************************************************************)
\* 0.0, 0.5, ..., SweepMax
BmiSweep == {Dec(5 * k, 1) : k \in 0..(2 * SweepMax)}

BmiProbes ==
    {Dec(184999, 4), Dec(185001, 4), Dec(249999, 4), Dec(250001, 4),
     Dec(299999, 4), Dec(300001, 4), Dec(99999, 4), Dec(100001, 4),
     Dec(399999, 4), Dec(400001, 4), Dec(500, 1), Dec(7813, 1),
     Dec(-50, 1), Inf(FALSE), Inf(TRUE)}

BmiArgs == BmiSweep \cup BmiProbes \cup {NaN}

\* kilograms and metres: negative, zero, ordinary, and beyond the range in
\* which the square of a float is a float
WeightArgs == {Dec(-700, 1), Dec(0, 0), Dec(200, 1), Dec(700, 1), Dec(3000, 1)}
HeightArgs ==
    {Dec(-17, 1), Dec(0, 0), Dec(5, 1), Dec(17, 1), Dec(25, 1),
     Fin(FALSE, <<1>>, <<1>>, 200), Fin(FALSE, <<1>>, <<1>>, -200),
     Fin(TRUE, <<1>>, <<1>>, 200)}

LabelArgs ==
    {"Underweight", "Normal", "Overweight", "Obese", Placeholder,
     "", "normal", "OBESE", "Unknown"}

CallBmi(w, h) ==
    /\ call' = [fn |-> "bmi", args |-> <<w, h>>]
    /\ ret' = bmi(w, h)
    /\ UNCHANGED session

CallClassifyBmi(b) ==
    /\ call' = [fn |-> "classify_bmi", args |-> <<b>>]
    /\ ret' = classify_bmi(b)
    /\ UNCHANGED session

CallRecommendations(c) ==
    /\ call' = [fn |-> "recommendations", args |-> <<c>>]
    /\ ret' = recommendations(c)
    /\ UNCHANGED session

CallRenderBandChart(b) ==
    /\ call' = [fn |-> "render_band_chart", args |-> <<b>>]
    /\ ret' = render_band_chart(b)
    /\ UNCHANGED session

CallPipeline(h, w) ==
    /\ call' = [fn |-> "Pipeline", args |-> <<h, w>>]
    /\ ret' = Pipeline(h, w)
    /\ UNCHANGED session

NextCall ==
    \/ \E w \in WeightArgs, h \in HeightArgs : CallBmi(w, h)
    \/ \E b \in BmiArgs : CallClassifyBmi(b)
    \/ \E c \in LabelArgs : CallRecommendations(c)
    \/ \E b \in BmiArgs : CallRenderBandChart(b)
    \/ \E h \in HeightArgs, w \in WeightArgs : CallPipeline(h, w)

Calls == Init /\ [][NextCall]_vars

(***************************************************************************)
(* Properties.                                                             *)
(***************************************************************************)
Zero == Dec(0, 0)

\* the bands of BMI_BANDS whose half-open interval [lo, hi) holds b
BandsOf(b) ==
    {i \in 1..Len(BMI_BANDS) :
        FLe(BMI_BANDS[i].lo, b) /\ FLt(b, BMI_BANDS[i].hi)}

\* C1: for every finite BMI b >= 0, classify_bmi(b) is the label and the
\* tone of the one band of BMI_BANDS whose interval [lo, hi) holds b (the
\* band's color is the tone's badge color), so a boundary value belongs to
\* the upper band; the bands run from 0 to +inf, each starting where the
\* one before ends.
C1_ClassifyIsTheBandOfTheTable ==
    /\ FEq(BMI_BANDS[1].lo, Zero)
    /\ \A i \in 1..(Len(BMI_BANDS) - 1) :
         FEq(BMI_BANDS[i].hi, BMI_BANDS[i + 1].lo)
    /\ BMI_BANDS[Len(BMI_BANDS)].hi = Inf(FALSE)
    /\ call.fn = "classify_bmi" =>
         LET b == call.args[1]
         IN  b.k = "fin" /\ FLe(Zero, b) =>
               /\ Cardinality(BandsOf(b)) = 1
               /\ \A i \in BandsOf(b) :
                    /\ ret[1] = BMI_BANDS[i].label
                    /\ ToneColor[ret[2]] = BMI_BANDS[i].color
               /\ FEq(b, Dec(185, 1))    => ret = <<"Normal", "ok">>
               /\ FEq(b, Dec(184999, 4)) => ret = <<"Underweight", "info">>
               /\ FEq(b, Dec(250, 1))    => ret = <<"Overweight", "warn">>
               /\ FEq(b, Dec(299999, 4)) => ret = <<"Overweight", "warn">>
               /\ FEq(b, Dec(300, 1))    => ret = <<"Obese", "alert">>

\* C1 witness: classify_bmi was called on the boundary 25.0
C1_Witness ==
    /\ call.fn = "classify_bmi"
    /\ FEq(call.args[1], Dec(250, 1))
    /\ ret = <<"Overweight", "warn">>

\* C2: bmi(weight_kg, height_m) never raises for a finite numeric input,
\* returns nan exactly when height_m <= 0 or weight_kg <= 0, and returns
\* weight_kg / height_m^2 otherwise.
C2_BmiNeverRaises ==
    call.fn = "bmi" =>
        LET w == call.args[1]
            h == call.args[2]
        IN  /\ ~Raised(ret)
            /\ IsNan(ret) <=> (FLe(h, Zero) \/ FLe(w, Zero))
            /\ FGt(h, Zero) /\ FGt(w, Zero) => FEq(FMul(ret, FMul(h, h)), w)

\* C3: when the height or the weight fed to the pipeline is non-positive,
\* the run raises nothing, the BMI is nan, the category is the placeholder
\* with tone info, and its recommendations are the empty sequence.
C3_NonPositiveInputDegrades ==
    call.fn = "Pipeline" =>
        LET h == call.args[1]
            w == call.args[2]
        IN  FLe(h, Zero) \/ FLe(w, Zero) =>
              /\ ret.error = ""
              /\ IsNan(ret.bmi_value)
              /\ ret.category = Placeholder
              /\ ret.tone = "info"
              /\ recommendations(ret.category) = << >>
              /\ ret.listed = << >>

\* C3 witness: the pipeline ran on weight 0 and a positive height
C3_Witness ==
    /\ call.fn = "Pipeline"
    /\ FGt(call.args[1], Zero)
    /\ IsZero(call.args[2])
    /\ ret.category = Placeholder

\* C4: for every argument of render_band_chart the marker is a number in
\* [10, 40]: the BMI itself when 10 <= BMI <= 40, 10 below that (5.0), 40
\* above (50.0), and 10 when the BMI is nan.
C4_MarkerClampedIntoDomain ==
    call.fn = "render_band_chart" =>
        LET b == call.args[1]
            m == ret.point_val
        IN  /\ m.k = "fin"
            /\ FLe(Dec(100, 1), m) /\ FLe(m, Dec(400, 1))
            /\ IsNan(b) => FEq(m, Dec(100, 1))
            /\ FLt(b, Dec(100, 1)) => FEq(m, Dec(100, 1))
            /\ FGt(b, Dec(400, 1)) => FEq(m, Dec(400, 1))
            /\ FLe(Dec(100, 1), b) /\ FLe(b, Dec(400, 1)) => FEq(m, b)
            /\ FEq(b, Dec(50, 1)) => FEq(m, Dec(100, 1))
            /\ FEq(b, Dec(500, 1)) => FEq(m, Dec(400, 1))

\* C4 witness: the chart was built for the nan sentinel
C4_Witness ==
    /\ call.fn = "render_band_chart"
    /\ IsNan(call.args[1])
    /\ FEq(ret.point_val, Dec(100, 1))

\* C5: recommendations looks up a table of exactly five keys: each of the
\* four categories gives its 4 entries in the table's order, the
\* placeholder gives the empty sequence, and so does every other label.
C5_RecommendationsLookup ==
    /\ DOMAIN recs =
         {"Underweight", "Normal", "Overweight", "Obese", Placeholder}
    /\ call.fn = "recommendations" =>
         LET c == call.args[1]
         IN  /\ c \in {"Underweight", "Normal", "Overweight", "Obese"} =>
                  Len(ret) = 4 /\ ret = recs[c]
             /\ c = Placeholder => ret = << >>
             /\ c \notin DOMAIN recs => ret = << >>

\* C5 witness: recommendations was called with a label that is no key
C5_Witness ==
    /\ call.fn = "recommendations"
    /\ call.args[1] = "Unknown"
    /\ ret = << >>

\* the normalised inputs of the session's current state
Current == Normalised(unit_system, height_cm, weight_kg, height_in, weight_lb)

\* C6: the page shows the BMI rounded to one decimal and the category and
\* tone of that rounded value, not of the full-precision BMI: 18.449 shows
\* as 18.4, Underweight, and 18.451 as 18.5, Normal.
C6_CategoryOfRoundedBmi ==
    /\ view.bmi_value = Round1(bmi(Current.weight, Current.height_m))
    /\ <<view.category, view.tone>> = classify_bmi(view.bmi_value)
    /\ LET low == Pipeline(Dec(1, 0), Dec(18449, 3))
           high == Pipeline(Dec(1, 0), Dec(18451, 3))
       IN  /\ FEq(low.bmi_value, Dec(184, 1)) /\ low.category = "Underweight"
           /\ FEq(high.bmi_value, Dec(185, 1)) /\ high.category = "Normal"

\* C6 witness: a session state whose full-precision BMI is below 18.5 and
\* whose rounded BMI is 18.5
C6_Witness ==
    /\ FLt(bmi(Current.weight, Current.height_m), Dec(185, 1))
    /\ FEq(view.bmi_value, Dec(185, 1))
    /\ view.category = "Normal"

\* C7: 170 cm and 70 kg show BMI 24.2, Normal, tone ok and 4
\* recommendations; 67 in and 154 lb show BMI 24.1 and Normal.
C7_EndToEndScenarios ==
    /\ IsMetric(unit_system) /\ height_cm = 1700 /\ weight_kg = 700 =>
         /\ FEq(Current.height_m, Dec(170, 2))
         /\ FEq(Current.weight, Dec(70, 0))
         /\ FEq(view.bmi_value, Dec(242, 1))
         /\ view.category = "Normal"
         /\ view.tone = "ok"
         /\ Len(view.listed) = 4
    /\ ~IsMetric(unit_system) /\ height_in = 670 /\ weight_lb = 1540 =>
         /\ FEq(Current.height_m, Dec(17018, 4))
         /\ FEq(Current.weight, Fin(FALSE, <<2498, 8532, 69>>, <<1>>, -8))
         /\ FEq(view.bmi_value, Dec(241, 1))
         /\ view.category = "Normal"

\* C7 witness: the imperial scenario is on the page
C7_Witness ==
    /\ ~IsMetric(unit_system) /\ height_in = 670 /\ weight_lb = 1540
    /\ FEq(view.bmi_value, Dec(241, 1))

\* the segments of a chart whose interval [start, end) holds m
SegmentsOf(chart, m) ==
    {i \in 1..Len(chart.thresholds) :
        FLe(chart.thresholds[i].start, m) /\ FLt(m, chart.thresholds[i].end)}

\* C8: the chart's segments tile [10, 40], their interior boundaries are
\* those of BMI_BANDS (18.5, 25.0, 30.0), and for a BMI b in [10, 40) the
\* one segment that holds the marker carries the label classify_bmi(b).
C8_SegmentsAgreeWithClassification ==
    call.fn = "render_band_chart" =>
        LET b == call.args[1]
            t == ret.thresholds
        IN  /\ Len(t) = Len(BMI_BANDS)
            /\ FEq(t[1].start, display_min) /\ FEq(t[Len(t)].end, display_max)
            /\ \A i \in 1..(Len(t) - 1) :
                 /\ FEq(t[i].end, t[i + 1].start)
                 /\ FEq(t[i].end, BMI_BANDS[i].hi)
            /\ \A i \in 1..Len(t) : FLt(t[i].start, t[i].end)
            /\ b.k = "fin" /\ FLe(display_min, b) /\ FLt(b, display_max) =>
                 /\ Cardinality(SegmentsOf(ret, ret.point_val)) = 1
                 /\ \A i \in SegmentsOf(ret, ret.point_val) :
                      t[i].range = classify_bmi(b)[1]

\* C8 witness: the chart was built for a BMI just below the boundary 25.0
C8_Witness ==
    /\ call.fn = "render_band_chart"
    /\ FEq(call.args[1], Dec(249999, 4))
    /\ SegmentsOf(ret, ret.point_val) = {2}

\* C9: after every interaction the page is the one a run of the script
\* renders for the selected unit system and that system's two inputs
\* alone: it does not depend on the inputs out of view or on the history.
C9_PageIsFunctionOfCurrentInputs ==
    view = IF IsMetric(unit_system)
           THEN main(unit_system, height_cm, weight_kg,
                     HeightInInput.value, WeightLbInput.value)
           ELSE main(unit_system, HeightCmInput.value, WeightKgInput.value,
                     height_in, weight_lb)

\* C9 witness: the imperial inputs are in view and changed, and the metric
\* inputs out of view hold other values than their defaults
C9_Witness ==
    /\ ~IsMetric(unit_system)
    /\ height_in # HeightInInput.value /\ weight_lb # WeightLbInput.value
    /\ height_cm # HeightCmInput.value /\ weight_kg # WeightKgInput.value

InRange(v, w) == w.min_value <= v /\ v <= w.max_value

\* C10: in every state of the application the inputs are within their
\* widgets' bounds, the normalised height and weight are positive, the BMI
\* is a number, the category is not the placeholder, the 'Enter valid
\* height and weight' message is not shown, and the chart is drawn for a
\* BMI that is not nan.
C10_AppNeverSeesTheSentinel ==
    /\ InRange(height_cm, HeightCmInput) /\ InRange(weight_kg, WeightKgInput)
    /\ InRange(height_in, HeightInInput) /\ InRange(weight_lb, WeightLbInput)
    /\ FGt(Current.height_m, Zero) /\ FGt(Current.weight, Zero)
    /\ view.error = ""
    /\ view.bmi_value.k = "fin"
    /\ view.category # Placeholder
    /\ ~view.info
    /\ Len(view.chart) = 1
    /\ view.chart[1] = render_band_chart(view.bmi_value).point_val
    /\ view.listed = recommendations(view.category)

\* C10 witness: the smallest height with the largest weight, whose BMI is
\* far above the chart's domain
C10_Witness ==
    /\ IsMetric(unit_system)
    /\ height_cm = HeightCmInput.min_value
    /\ weight_kg = WeightKgInput.max_value
    /\ FEq(view.chart[1], display_max)

====
